---- MODULE Spec2Model ----
(***************************************************************************)
(* Lifecycle of the o3dimport editor gem: the o3dimportEditorModule, the   *)
(* o3dimportEditorSystemComponent instances the host creates from it, the  *)
(* o3dimportInterface singleton and the o3dimportRequestBus.               *)
(***************************************************************************)
EXTENDS Integers, FiniteSets, Sequences

\* Number of component objects the host may have alive at once.
NumInst == 3

Inst == 1..NumInst

\* nullptr: no component object has this identity
NULL == 0

\* ------------------------------------------------------------------------
\* o3dimportTypeIds.h
o3dimportEditorSystemComponentTypeId == "{D8D8C6FA-58F3-4BBF-8071-9876C82EB51F}"

o3dimportModuleInterfaceTypeId == "{BF1510BB-4A13-4CFC-83D0-F1083EC43DA5}"

o3dimportEditorModuleTypeId == "{B06B5CF3-47CA-4DB1-9F2C-7EE480A3949C}"

o3dimportRequestsTypeId == "{D4B9BE7C-F89D-4D2A-AFF6-1EAB68767AA8}"

VARIABLES
    alive,          \* component objects constructed and not yet destroyed
    created,        \* component objects ever constructed (history)
    active,         \* component objects between Activate() and Deactivate()
    s_instance,     \* o3dimportInterface: the registered o3dimportRequests*
    m_handler,      \* o3dimportRequestBus: the single handler slot
    m_node,         \* handlers whose BusIsConnected() is true
    asserted,       \* assertions of the interface / the bus reached so far
    moduleLoaded,   \* an o3dimportEditorModule has been constructed
    m_descriptors,  \* AZ::Module::m_descriptors of the editor module
    entity,         \* components added to the system entity
    lastOp          \* the operation that led to this state (history)

vars == <<alive, created, active, s_instance, m_handler, m_node, asserted,
          moduleLoaded, m_descriptors, entity, lastOp>>

\* ------------------------------------------------------------------------
\* The part of the process state the component's methods read and write.
Proc == [s_instance |-> s_instance, m_handler |-> m_handler,
         m_node |-> m_node, asserted |-> asserted]

\* o3dimportInterface = AZ::Interface<o3dimportRequests>
InterfaceGet(p) == p.s_instance

\* Register refuses (and asserts) when an instance is already registered.
InterfaceRegister(p, type) ==
    IF p.s_instance # NULL
    THEN [p EXCEPT !.asserted = @ \cup {"InterfaceAlreadyRegistered"}]
    ELSE [p EXCEPT !.s_instance = type]

\* Unregister refuses (and asserts) unless `type` is the registered instance.
InterfaceUnregister(p, type) ==
    IF p.s_instance = NULL
    THEN [p EXCEPT !.asserted = @ \cup {"InterfaceNotRegistered"}]
    ELSE IF p.s_instance # type
    THEN [p EXCEPT !.asserted = @ \cup {"InterfaceNotSameInstance"}]
    ELSE [p EXCEPT !.s_instance = NULL]

\* o3dimportRequestBus: HandlerPolicy = Single, AddressPolicy = Single.
BusIsConnected(p, this) == this \in p.m_node

\* Handler::BusConnect(): a handler that is not connected takes the single
\* handler slot; the slot being taken already is the bus's assertion.
BusConnect(p, this) ==
    IF BusIsConnected(p, this)
    THEN p
    ELSE [p EXCEPT !.m_handler = this,
                   !.m_node = @ \cup {this},
                   !.asserted = IF p.m_handler # NULL
                                THEN @ \cup {"BusAlreadyConnected"}
                                ELSE @]

\* Handler::BusDisconnect()
BusDisconnect(p, this) ==
    IF BusIsConnected(p, this)
    THEN [p EXCEPT !.m_handler = IF @ = this THEN NULL ELSE @,
                   !.m_node = @ \ {this}]
    ELSE p

\* ------------------------------------------------------------------------
\* o3dimportEditorSystemComponent

\* faulty variant: the constructor takes the registration over from the holder
Ctor_Replaces(p, this) ==
    IF InterfaceGet(p) = NULL
    THEN InterfaceRegister(p, this)
    ELSE InterfaceRegister(InterfaceUnregister(p, InterfaceGet(p)), this)

\* faulty variant: the constructor registers without the null check
Ctor_NoNullCheck(p, this) == InterfaceRegister(p, this)

SystemComponent_ctor(p, this) ==
    IF InterfaceGet(p) = NULL
    THEN InterfaceRegister(p, this)
    ELSE p

\* faulty variant: the destructor unregisters whoever is registered
Dtor_UnregistersAny(p, this) ==
    IF InterfaceGet(p) # NULL
    THEN InterfaceUnregister(p, InterfaceGet(p))
    ELSE p

\* faulty variant: the destructor unregisters without checking it is the holder
Dtor_NoThisCheck(p, this) == InterfaceUnregister(p, this)

\* faulty variant: the destructor leaves the registration in place
Dtor_NoUnregister(p, this) == p

SystemComponent_dtor(p, this) ==
    IF InterfaceGet(p) = this
    THEN InterfaceUnregister(p, this)
    ELSE p

\* faulty variant: Activate() also registers the singleton when it is unset
Activate_Registers(p, this) ==
    LET q == BusConnect(p, this)
    IN  IF InterfaceGet(q) = NULL THEN InterfaceRegister(q, this) ELSE q

SystemComponent_Activate(p, this) == BusConnect(p, this)

\* faulty variant: Deactivate() also unregisters the singleton
Deactivate_Unregisters(p, this) ==
    LET q == BusDisconnect(p, this)
    IN  IF InterfaceGet(q) = this THEN InterfaceUnregister(q, this) ELSE q

\* faulty variant: Deactivate() leaves the handler connected
Deactivate_NoDisconnect(p, this) == p

SystemComponent_Deactivate(p, this) == BusDisconnect(p, this)

GetProvidedServices == {"o3dimportEditorService"}

\* faulty variant: no incompatible service is declared
Incompatible_None == {}

GetIncompatibleServices == {"o3dimportEditorService"}

GetRequiredServices == {}

GetDependentServices == {}

\* AZ_COMPONENT_DECL / AZ_COMPONENT_IMPL: the descriptor and the type id
SystemComponent_CreateDescriptor ==
    [typeId |-> o3dimportEditorSystemComponentTypeId,
     name |-> "o3dimportEditorSystemComponent"]

\* ------------------------------------------------------------------------
\* o3dimportModuleInterface and o3dimportEditorModule

ModuleInterface_GetRequiredSystemComponents == << >>

\* faulty variant: the constructor registers no descriptor
EditorModule_ctor_NoDescriptor(descriptors) == descriptors

EditorModule_ctor(descriptors) ==
    descriptors \o << SystemComponent_CreateDescriptor >>

EditorModule_GetRequiredSystemComponents ==
    << o3dimportEditorSystemComponentTypeId >>

\* ------------------------------------------------------------------------
\* The host's dependency resolver: a component may join an entity unless it
\* is incompatible with a service another component on the entity provides
\* (or the other way round).  Every instance here is of the one component type.
ResolverAdmits(members, c) ==
    \A d \in members \ {c} :
        GetIncompatibleServices \cap GetProvidedServices = {}

\* ------------------------------------------------------------------------
Init ==
    /\ alive = {}
    /\ created = {}
    /\ active = {}
    /\ s_instance = NULL
    /\ m_handler = NULL
    /\ m_node = {}
    /\ asserted = {}
    /\ moduleLoaded = FALSE
    /\ m_descriptors = << >>
    /\ entity = {}
    /\ lastOp = [op |-> "none", inst |-> NULL]

Apply(q) ==
    /\ s_instance' = q.s_instance
    /\ m_handler' = q.m_handler
    /\ m_node' = q.m_node
    /\ asserted' = q.asserted

\* The host loads the gem: o3dimportEditorModule()
LoadModule ==
    /\ ~moduleLoaded
    /\ moduleLoaded' = TRUE
    /\ m_descriptors' = EditorModule_ctor(m_descriptors)
    /\ UNCHANGED <<alive, created, active, s_instance, m_handler, m_node,
                   asserted, entity>>
    /\ lastOp' = [op |-> "LoadModule", inst |-> NULL]

\* new o3dimportEditorSystemComponent
Construct(c) ==
    /\ c \notin alive
    /\ alive' = alive \cup {c}
    /\ created' = created \cup {c}
    /\ Apply(SystemComponent_ctor(Proc, c))
    /\ UNCHANGED <<active, moduleLoaded, m_descriptors, entity>>
    /\ lastOp' = [op |-> "Construct", inst |-> c]

\* delete of a component that is deactivated and on no entity
Destroy(c) ==
    /\ c \in alive
    /\ c \notin active
    /\ c \notin entity
    /\ alive' = alive \ {c}
    /\ Apply(SystemComponent_dtor(Proc, c))
    /\ UNCHANGED <<created, active, moduleLoaded, m_descriptors, entity>>
    /\ lastOp' = [op |-> "Destroy", inst |-> c]

Activate(c) ==
    /\ c \in alive
    /\ c \notin active
    /\ active' = active \cup {c}
    /\ Apply(SystemComponent_Activate(Proc, c))
    /\ UNCHANGED <<alive, created, moduleLoaded, m_descriptors, entity>>
    /\ lastOp' = [op |-> "Activate", inst |-> c]

Deactivate(c) ==
    /\ c \in active
    /\ active' = active \ {c}
    /\ Apply(SystemComponent_Deactivate(Proc, c))
    /\ UNCHANGED <<alive, created, moduleLoaded, m_descriptors, entity>>
    /\ lastOp' = [op |-> "Deactivate", inst |-> c]

\* The host adds a component to the system entity, if the resolver admits it.
AddComponent(c) ==
    /\ c \in alive
    /\ c \notin entity
    /\ ResolverAdmits(entity, c)
    /\ entity' = entity \cup {c}
    /\ UNCHANGED <<alive, created, active, s_instance, m_handler, m_node,
                   asserted, moduleLoaded, m_descriptors>>
    /\ lastOp' = [op |-> "AddComponent", inst |-> c]

RemoveComponent(c) ==
    /\ c \in entity
    /\ c \notin active
    /\ entity' = entity \ {c}
    /\ UNCHANGED <<alive, created, active, s_instance, m_handler, m_node,
                   asserted, moduleLoaded, m_descriptors>>
    /\ lastOp' = [op |-> "RemoveComponent", inst |-> c]

Next ==
    \/ LoadModule
    \/ \E c \in Inst : Construct(c)
    \/ \E c \in Inst : Destroy(c)
    \/ \E c \in Inst : Activate(c)
    \/ \E c \in Inst : Deactivate(c)
    \/ \E c \in Inst : AddComponent(c)
    \/ \E c \in Inst : RemoveComponent(c)

Spec == Init /\ [][Next]_vars

\* ------------------------------------------------------------------------
\* Properties

InterfaceAssertions ==
    {"InterfaceAlreadyRegistered", "InterfaceNotRegistered",
     "InterfaceNotSameInstance"}

\* The instances o3dimportInterface holds.
Registered == {c \in Inst : InterfaceGet(Proc) = c}

\* C1: the singleton holds no instance or exactly one, and constructing a
\* further instance while one is registered neither replaces it nor adds to it.
C1_AtMostOneRegistered ==
    /\ [](s_instance \in Inst \cup {NULL} /\ Cardinality(Registered) <= 1)
    /\ [][(s_instance # NULL /\ alive' # alive /\ alive \subseteq alive')
            => s_instance' = s_instance]_vars

C1_Witness ==
    /\ lastOp.op = "Construct"
    /\ s_instance \notin {NULL, lastOp.inst}
    /\ Cardinality(alive) >= 2

C4_ConnectedIffActive ==
    /\ \A c \in Inst : BusIsConnected(Proc, c) <=> c \in active
    /\ asserted = {} =>
         /\ m_handler = NULL <=> active = {}
         /\ m_handler # NULL => active = {m_handler}

C4_Witness ==
    /\ lastOp.op = "Activate"
    /\ BusIsConnected(Proc, lastOp.inst)
    /\ \E c \in created \ {lastOp.inst} : ~BusIsConnected(Proc, c)

\* C5: the constructed editor module holds exactly the descriptor of the
\* system component, requires exactly its type id (the base module requires
\* nothing), and every required component has a descriptor.
C5_ModuleListsComponents ==
    /\ ~moduleLoaded => m_descriptors = << >>
    /\ moduleLoaded =>
         /\ Len(m_descriptors) = 1
         /\ m_descriptors[1].typeId = o3dimportEditorSystemComponentTypeId
         /\ m_descriptors[1].name = "o3dimportEditorSystemComponent"
         /\ EditorModule_GetRequiredSystemComponents
              = << o3dimportEditorSystemComponentTypeId >>
         /\ ModuleInterface_GetRequiredSystemComponents = << >>
         /\ \A i \in DOMAIN EditorModule_GetRequiredSystemComponents :
              \E j \in DOMAIN m_descriptors :
                m_descriptors[j].typeId
                  = EditorModule_GetRequiredSystemComponents[i]

C5_Witness ==
    /\ moduleLoaded
    /\ Len(m_descriptors) = 1

\* C6: provided = incompatible = {o3dimportEditorService}, required =
\* dependent = {}, and the resolver admits at most one component per entity.
C6_ServiceDeclarations ==
    /\ GetProvidedServices = {"o3dimportEditorService"}
    /\ GetIncompatibleServices = {"o3dimportEditorService"}
    /\ GetRequiredServices = {}
    /\ GetDependentServices = {}
    /\ Cardinality(entity) <= 1

C6_Witness ==
    /\ Cardinality(entity) = 1
    /\ alive \ entity # {}
    /\ entity \subseteq active

\* C7: Register is only invoked while the singleton is unset and Unregister
\* only by the registered instance: no assertion of the interface is reached.
C7_RegistryPreconditions == asserted \cap InterfaceAssertions = {}

C7_Witness ==
    /\ lastOp.op = "Destroy"
    /\ Cardinality(created) >= 2
    /\ s_instance \in alive

\* C8: destroying an instance that is not registered leaves the singleton
\* unchanged, and a registered instance stays registered while it is alive.
C8_DestroyOtherKeepsSingleton ==
    [][/\ \A c \in Inst :
            (c \in alive /\ c \notin alive' /\ s_instance # c)
              => s_instance' = s_instance
       /\ (s_instance # NULL /\ s_instance \in alive')
              => s_instance' = s_instance]_vars

C8_Witness ==
    /\ lastOp.op = "Destroy"
    /\ s_instance \notin {NULL, lastOp.inst}

\* C9: the singleton is unset or refers to an alive instance; destroying the
\* registered instance unsets it, and only a construction sets it again, to
\* the instance being constructed.
C9_NeverDangles ==
    /\ [](s_instance = NULL \/ s_instance \in alive)
    /\ [][/\ (s_instance # NULL /\ s_instance \notin alive')
               => s_instance' = NULL
          /\ (s_instance = NULL /\ s_instance' # NULL)
               => (s_instance' \notin alive /\ s_instance' \in alive')]_vars

C9_Witness ==
    /\ lastOp.op = "Destroy"
    /\ s_instance = NULL
    /\ alive # {}

\* C10: while the only instance ever created is alive, the singleton refers
\* to it, whether it is activated or not; so the component connected to the
\* bus is the one o3dimportInterface::Get() returns.
C10_SingleInstance ==
    \A c \in Inst :
        (created = {c} /\ c \in alive) =>
            /\ s_instance = c
            /\ BusIsConnected(Proc, c) => InterfaceGet(Proc) = c

C10_Witness ==
    /\ Cardinality(created) = 1
    /\ lastOp.op = "Deactivate"
    /\ alive = created
    /\ moduleLoaded

====
